---- MODULE Spec2Model ----
(***************************************************************************)
(* consul-rs: the watch loop (ConsulConfig::watch_services), the blocking  *)
(* query (health_service / get_address), the address cache                 *)
(* (SERVICES_ADDRESS) and the selection function (random_policy) of        *)
(* src/src/api.rs, together with the registry they talk to.                *)
(*                                                                         *)
(* Option<T> is a sequence of length 0 (None) or 1 (Some(x)).              *)
(* A HashMap is a function whose DOMAIN is the set of keys present.        *)
(***************************************************************************)
EXTENDS Integers, Sequences, FiniteSets, TLC

VARIABLES
    CONSUL_CONFIG,     \* the global ConsulConfig {config, watch_services}
    cfg_readers,       \* read guards held on CONSUL_CONFIG
    SERVICES_ADDRESS,  \* the global cache: key -> ServiceAddress
    sa_readers,        \* read guards held on SERVICES_ADDRESS
    pc,                \* position of the watch_services task
    i,                 \* position in service_await (1-based) of the awaited future
    vv,                \* the round's HashMap of results
    cur_index,         \* the index health_service read for the query in flight
    resp,              \* the response body received for the query in flight
    issued,            \* SERVICES_ADDRESS as it was when the poll in flight was issued
    query,             \* the query parameters of the query in flight: name -> value
    round_log,         \* per awaited future of this round: what get_address returned
    seen,              \* per target position: change indices seen in its responses
    registry,          \* the registry: instance -> registration
    raft_index,        \* the registry's change index
    ret,               \* Some(call and outcome) in the state a returning call leads to
    sa_writers,        \* write guards held on SERVICES_ADDRESS
    commits,           \* per committing task: its position, its vv, the keys left to insert
    sel,               \* the random_policy call in progress: position, call, held, range
    cfg_writers,       \* write guards held on CONSUL_CONFIG
    load,              \* the load_config call in progress: position, path, parsed config
    sent               \* the paths of the requests the client calls have sent

vars == <<CONSUL_CONFIG, cfg_readers, SERVICES_ADDRESS, sa_readers, pc, i, vv,
          cur_index, resp, issued, query, round_log, seen, registry, raft_index, ret,
          sa_writers, commits, sel, cfg_writers, load, sent>>

\* The state of the tasks that SpecTasks follows step by step.
task_vars == <<sa_writers, commits, sel>>

\* The state of load_config and of the client calls that SpecClient follows
\* step by step.
client_vars == <<cfg_writers, load, sent>>

\* The state of the one watch_services task and of the registry that Spec follows.
loop_vars == <<CONSUL_CONFIG, cfg_readers, pc, i, vv, cur_index, resp, issued, query,
               round_log, seen, registry, raft_index>>

(***************************************************************************)
(* Bounds                                                                  *)
(***************************************************************************)
\* The registry stops changing once its change index reaches MaxIndex.
MaxIndex == 2

\* A response body lists at most MaxRecords records in SpecGetAddress.
MaxRecords == 2

(***************************************************************************)
(* Option, HashMap and string helpers                                      *)
(***************************************************************************)
None == <<>>
Some(x) == <<x>>
is_some(o) == o # <<>>
unwrap(o) == o[1]
unwrap_or(o, d) == IF is_some(o) THEN o[1] ELSE d

EmptyMap == [k \in {} |-> {}]
\* An insert that builds the map anew from its one pair.
insert_alone(m, k, v) == [x \in {k} |-> v]

\* An insert that leaves the value of a key that is present.
insert_keeps_first(m, k, v) ==
    IF k \in DOMAIN m THEN m
    ELSE [x \in (DOMAIN m) \cup {k} |-> IF x = k THEN v ELSE m[x]]

\* HashMap::insert
insert(m, k, v) == [x \in (DOMAIN m) \cup {k} |-> IF x = k THEN v ELSE m[x]]

Range(s) == {s[n] : n \in DOMAIN s}

Digits == <<"0", "1", "2", "3", "4", "5", "6", "7", "8", "9">>

\* Display of an unsigned integer (to_string / "{}").
RECURSIVE to_string(_)
to_string(n) ==
    IF n < 10 THEN Digits[n + 1]
    ELSE to_string(n \div 10) \o Digits[(n % 10) + 1]

(***************************************************************************)
(* Configuration                                                           *)
(***************************************************************************)
\* The balancer names a target can ask for.
ROUND_ROBIN == "round_robin"
RANDOM == "random"

WatchService(name, tag, passing) ==
    [service_name |-> name, tag |-> tag, passing_only |-> passing,
     balancer_name |-> None]

Config(address, wait_time) == [address |-> address, wait_time |-> wait_time]

\* ConsulConfig::default()
DefaultConsulConfig ==
    [config |-> Some(Config(Some("http://127.0.0.1:8500"), None)),
     watch_services |-> None]

\* web asks for round-robin selection.
web == [WatchService("web", None, Some(TRUE)) EXCEPT !.balancer_name = Some(ROUND_ROBIN)]
api == WatchService("api", Some(""), None)
ab_c == WatchService("ab", Some("c"), Some(FALSE))
a_bc == WatchService("a", Some("bc"), Some(TRUE))

OkConfig == Some(Config(Some("http://127.0.0.1:8500"), None))

\* The parsed contents of the configuration files load_config may be given.
ConfigFiles ==
    { [config |-> OkConfig, watch_services |-> None],
      [config |-> OkConfig, watch_services |-> Some(<<>>)],
      [config |-> OkConfig, watch_services |-> Some(<<web>>)],
      [config |-> OkConfig, watch_services |-> Some(<<web, api>>)],
      [config |-> Some(Config(Some("http://127.0.0.1:8500"), Some("10s"))),
       watch_services |-> Some(<<ab_c, a_bc>>)],
      [config |-> None, watch_services |-> Some(<<web>>)],
      [config |-> Some(Config(Some("127.0.0.1:8500 "), None)),
       watch_services |-> Some(<<web>>)],
      [config |-> Some(Config(None, None)), watch_services |-> Some(<<web>>)] }

\* surf::Url::parse of base address + path: the absolute URLs it accepts.
UrlParseOk(address) == address \in {"http://127.0.0.1:8500"}

(***************************************************************************)
(* The registry and its responses                                          *)
(***************************************************************************)
Instances == {"10.0.0.1", "10.0.0.2"}
ServicePort == 8080

\* What a registration carries: every field of AgentService is optional.
Shapes == {"full", "no_port", "no_index"}

Down == [up |-> FALSE, shape |-> "full", ModifyIndex |-> 0]

\* The ServiceEntry the registry returns for a registered instance.
ServiceEntryOf(h) ==
    LET r == registry[h] IN
    IF r.shape = "no_service" THEN [Service |-> None]
    ELSE [Service |-> Some(
            [Address |-> IF r.shape = "no_address" THEN None ELSE Some(h),
             Port |-> IF r.shape = "no_port" THEN None ELSE Some(ServicePort),
             ModifyIndex |-> IF r.shape = "no_index" THEN None
                             ELSE Some(r.ModifyIndex)])]

\* The sequences over S without repetition: any order of any subset of S.
Orderings(S) ==
    {s \in UNION {[1..n -> S] : n \in 0..Cardinality(S)} :
        \A a, b \in DOMAIN s : a # b => s[a] # s[b]}

\* The bodies a health query can return now: the registered instances, listed
\* in any order.
Responses ==
    {[n \in DOMAIN s |-> ServiceEntryOf(s[n])] :
        s \in {o \in Orderings(Instances) : Range(o) = {h \in Instances : registry[h].up}}}

(***************************************************************************)
(* health_service and get_address                                          *)
(***************************************************************************)
ServiceAddress(index, address, address_link) ==
    [index |-> index, address |-> address, address_link |-> address_link]

\* ServiceAddress::default()
DefaultServiceAddress == ServiceAddress(0, <<>>, <<>>)

\* A key that sets the tag apart from the name.
health_service_key_separated(watch_service) ==
    watch_service.service_name \o "/" \o unwrap_or(watch_service.tag, "")

\* health_service: the cache key and the index sent with the query.
health_service_key(watch_service) ==
    watch_service.service_name \o unwrap_or(watch_service.tag, "")

\* A lookup that always starts from index 0.
health_service_index_zero(cache, watch_service) == 0

health_service_index(cache, watch_service) ==
    LET key == health_service_key(watch_service) IN
    IF key \in DOMAIN cache THEN cache[key].index ELSE 0

\* Query parameters with passing and wait set whenever passing_only is given,
\* be it Some(false).
health_service_query_any_passing(cache, config, watch_service) ==
    LET tag == unwrap_or(watch_service.tag, "")
        with_tag == IF tag # "" THEN insert(EmptyMap, "tag", tag) ELSE EmptyMap
        with_index == insert(with_tag, "index",
                             to_string(health_service_index(cache, watch_service)))
        wait == IF is_some(config.wait_time) THEN unwrap(config.wait_time) ELSE "5s"
    IN IF is_some(watch_service.passing_only)
       THEN insert(insert(with_index, "passing", "1"), "wait", wait)
       ELSE with_index

\* health_service: the query parameters it sets on the request.
health_service_query(cache, config, watch_service) ==
    LET tag == unwrap_or(watch_service.tag, "")
        with_tag == IF tag # "" THEN insert(EmptyMap, "tag", tag) ELSE EmptyMap
        with_index == insert(with_tag, "index",
                             to_string(health_service_index(cache, watch_service)))
        wait == IF is_some(config.wait_time) THEN unwrap(config.wait_time) ELSE "5s"
    IN IF is_some(watch_service.passing_only) /\ unwrap(watch_service.passing_only)
       THEN insert(insert(with_index, "passing", "1"), "wait", wait)
       ELSE with_index

\* A loop body that never skips a record for its index.
get_address_record_no_skip(acc, val, cur) ==
    IF acc.panic \/ ~is_some(val.Service) THEN acc
    ELSE LET v == unwrap(val.Service) IN
         IF is_some(v.Address) /\ is_some(v.Port)
         THEN IF ~is_some(v.ModifyIndex)
              THEN [acc EXCEPT !.panic = TRUE]
              ELSE LET index == unwrap(v.ModifyIndex)
                       address == unwrap(v.Address) \o ":" \o to_string(unwrap(v.Port))
                   IN [acc EXCEPT !.index = index,
                                  !.address = Append(@, address),
                                  !.address_link = Append(@, address)]
         ELSE acc

\* A loop body that pushes to the front of the linked list.
get_address_record_link_front(acc, val, cur) ==
    IF acc.panic \/ ~is_some(val.Service) THEN acc
    ELSE LET v == unwrap(val.Service) IN
         IF is_some(v.Address) /\ is_some(v.Port)
         THEN IF ~is_some(v.ModifyIndex)
              THEN [acc EXCEPT !.panic = TRUE]
              ELSE LET index == unwrap(v.ModifyIndex)
                       address == unwrap(v.Address) \o ":" \o to_string(unwrap(v.Port))
                   IN IF index = cur
                      THEN [acc EXCEPT !.index = index]
                      ELSE [acc EXCEPT !.index = index,
                                       !.address = Append(@, address),
                                       !.address_link = <<address>> \o @]
         ELSE acc

\* get_address, the body of the loop over the response for one record.
\* acc = [index, address, address_link, panic].
get_address_record(acc, val, cur) ==
    IF acc.panic \/ ~is_some(val.Service) THEN acc
    ELSE LET v == unwrap(val.Service) IN
         IF is_some(v.Address) /\ is_some(v.Port)
         THEN IF ~is_some(v.ModifyIndex)
              THEN [acc EXCEPT !.panic = TRUE]
              ELSE LET index == unwrap(v.ModifyIndex)
                       address == unwrap(v.Address) \o ":" \o to_string(unwrap(v.Port))
                   IN IF index = cur
                      THEN [acc EXCEPT !.index = index]
                      ELSE [acc EXCEPT !.index = index,
                                       !.address = Append(@, address),
                                       !.address_link = Append(@, address)]
         ELSE acc

RECURSIVE get_address_loop(_, _, _, _)
get_address_loop(acc, entry, n, cur) ==
    IF n > Len(entry) THEN acc
    ELSE get_address_loop(get_address_record(acc, entry[n], cur), entry, n + 1, cur)

\* get_address without its early return on an empty address list.
get_address_result_keeps_empty(watch_service, acc) ==
    LET tag == IF is_some(watch_service.tag) THEN unwrap(watch_service.tag) ELSE ""
    IN [key |-> watch_service.service_name \o tag,
        service_address |-> ServiceAddress(acc.index, acc.address, acc.address_link)]

\* get_address, after the loop: the (key, ServiceAddress) it returns.
get_address_result(watch_service, acc) ==
    IF Len(acc.address) = 0
    THEN [key |-> "", service_address |-> DefaultServiceAddress]
    ELSE LET tag == IF is_some(watch_service.tag) THEN unwrap(watch_service.tag) ELSE ""
         IN [key |-> watch_service.service_name \o tag,
             service_address |-> ServiceAddress(acc.index, acc.address, acc.address_link)]

\* get_address on the result (cur, entry) of health_service.
get_address(watch_service, cur, entry) ==
    LET acc == get_address_loop(
                   [index |-> 0, address |-> <<>>, address_link |-> <<>>,
                    panic |-> FALSE], entry, 1, cur)
    IN IF acc.panic THEN [panic |-> TRUE]
       ELSE [panic |-> FALSE] @@ get_address_result(watch_service, acc)

(***************************************************************************)
(* random_policy                                                           *)
(***************************************************************************)
NotFound == [ok |-> FALSE, value |-> "consul server address is empty"]
Panicked == [ok |-> FALSE, value |-> "panic"]
Ok(address) == [ok |-> TRUE, value |-> address]

\* gen_range drawing from 0..range-1 exclusive of its end: the last index is
\* never drawn.
gen_range_short(range) == 0 .. (range - 2)

\* rand gen_range(0..range): the indices it can draw.
gen_range(range) == 0 .. (range - 1)

\* Vec::get(idx).unwrap(): the element (0-based), or a panic when out of range.
get_unwrap(address, idx) ==
    IF idx < Len(address) THEN Ok(address[idx + 1]) ELSE Panicked

\* A miss answered with a default (empty) address instead of the error.
random_policy_absent_default == {Ok("")}

\* The outcomes of random_policy on a key that is absent from the cache.
random_policy_absent == {NotFound}

\* The outcomes a call random_policy(service_name, tag) can have.
random_policy(cache, service_name, tag) ==
    LET key == service_name \o tag IN
    IF key \in DOMAIN cache
    THEN LET range == Len(cache[key].address) IN
         IF range = 0 THEN {NotFound}
         ELSE {get_unwrap(cache[key].address, idx) : idx \in gen_range(range)}
    ELSE random_policy_absent

\* The (service_name, tag) pairs callers ask for.
Calls == {<<"web", "">>, <<"ab", "c">>, <<"db", "">>}

(***************************************************************************)
(* History of the change indices seen by one target                        *)
(***************************************************************************)
Max(S) == CHOOSE x \in S : \A y \in S : y <= x

\* All change indices carried by the records of a response.
IndicesOf(entry) ==
    {unwrap(unwrap(entry[n].Service).ModifyIndex) :
        n \in {m \in DOMAIN entry :
                 /\ is_some(entry[m].Service)
                 /\ is_some(unwrap(entry[m].Service).ModifyIndex)}}

NoneSeen == [max |-> 0, increasing |-> TRUE]

\* seen[t] after one more successful poll of target t returned entry.
Observe(s, entry) ==
    LET idx == Max(IndicesOf(entry) \cup {0}) IN
    [max |-> Max({s.max, idx}),
     increasing |-> s.increasing /\ idx > s.max]

\* No random_policy call is in progress.
\* No load_config call is in progress.
NotLoading == [pc |-> "idle", path |-> <<>>, config |-> None]

Idle == [pc |-> "idle", call |-> <<>>, held |-> EmptyMap, range |-> 0]

(***************************************************************************)
(* Init                                                                    *)
(***************************************************************************)
Init ==
    /\ CONSUL_CONFIG = DefaultConsulConfig
    /\ cfg_readers = 0
    /\ SERVICES_ADDRESS = EmptyMap
    /\ sa_readers = 0
    /\ pc = "init"
    /\ i = 0
    /\ vv = EmptyMap
    /\ cur_index = 0
    /\ resp = <<>>
    /\ issued = EmptyMap
    /\ query = EmptyMap
    /\ round_log = <<>>
    /\ seen = <<>>
    /\ registry = [h \in Instances |-> Down]
    /\ raft_index = 0
    /\ ret = None
    /\ sa_writers = 0
    /\ commits = <<>>
    /\ sel = Idle
    /\ cfg_writers = 0
    /\ load = NotLoading
    /\ sent = {}

(***************************************************************************)
(* load_config                                                             *)
(***************************************************************************)
\* A load_config that assigns without waiting for the write lock.
LoadConfig_without_lock ==
    /\ \E file \in ConfigFiles :
          CONSUL_CONFIG' = [config |-> file.config,
                            watch_services |-> file.watch_services]
    /\ ret' = None
    /\ UNCHANGED task_vars
    /\ UNCHANGED client_vars
    /\ UNCHANGED <<cfg_readers, SERVICES_ADDRESS, sa_readers, pc, i, vv, cur_index,
                   resp, issued, query, round_log, seen, registry, raft_index>>

\* load_config when the file is read and parsed: both fields are replaced
\* under the write lock of CONSUL_CONFIG.
LoadConfig ==
    /\ cfg_readers = 0
    /\ \E file \in ConfigFiles :
          CONSUL_CONFIG' = [config |-> file.config,
                            watch_services |-> file.watch_services]
    /\ ret' = None
    /\ UNCHANGED task_vars
    /\ UNCHANGED client_vars
    /\ UNCHANGED <<cfg_readers, SERVICES_ADDRESS, sa_readers, pc, i, vv, cur_index,
                   resp, issued, query, round_log, seen, registry, raft_index>>

(***************************************************************************)
(* watch_services                                                          *)
(***************************************************************************)
watch_services == unwrap(CONSUL_CONFIG.watch_services)

\* watch_services is called: it takes the read guard of CONSUL_CONFIG and
\* returns Ok(()) at once when no target list is configured.
WatchStart ==
    /\ pc = "init"
    /\ IF is_some(CONSUL_CONFIG.watch_services)
       THEN pc' = "round" /\ cfg_readers' = cfg_readers + 1
       ELSE pc' = "returned_ok" /\ UNCHANGED cfg_readers
    /\ ret' = None
    /\ UNCHANGED task_vars
    /\ UNCHANGED client_vars
    /\ UNCHANGED <<CONSUL_CONFIG, SERVICES_ADDRESS, sa_readers, i, vv, cur_index,
                   resp, issued, query, round_log, seen, registry, raft_index>>

\* A loop that ends with Ok(()) when the target list is empty.
RoundStart_returns_on_empty ==
    /\ pc = "round"
    /\ vv' = EmptyMap
    /\ round_log' = <<>>
    /\ IF Len(watch_services) = 0
       THEN pc' = "returned_ok" /\ i' = 0 /\ cfg_readers' = cfg_readers - 1
       ELSE pc' = "send" /\ i' = 1 /\ UNCHANGED cfg_readers
    /\ seen' = IF seen = <<>> THEN [t \in DOMAIN watch_services |-> NoneSeen] ELSE seen
    /\ ret' = None
    /\ UNCHANGED task_vars
    /\ UNCHANGED client_vars
    /\ UNCHANGED <<CONSUL_CONFIG, SERVICES_ADDRESS, sa_readers,
                   cur_index, resp, issued, query, registry, raft_index>>

\* Top of the loop: the futures are created (none runs yet) and vv is empty.
\* With no target the round is over at once and the loop spins.
RoundStart ==
    /\ pc = "round"
    /\ vv' = EmptyMap
    /\ round_log' = <<>>
    /\ IF Len(watch_services) = 0
       THEN pc' = "round" /\ i' = 0
       ELSE pc' = "send" /\ i' = 1
    /\ seen' = IF seen = <<>> THEN [t \in DOMAIN watch_services |-> NoneSeen] ELSE seen
    /\ ret' = None
    /\ UNCHANGED task_vars
    /\ UNCHANGED client_vars
    /\ UNCHANGED <<CONSUL_CONFIG, cfg_readers, SERVICES_ADDRESS, sa_readers,
                   cur_index, resp, issued, query, registry, raft_index>>

\* The way watch_services ends when the awaited future yields Err: `?` returns
\* it, which drops vv, the futures and every guard the task holds.
ReturnErr ==
    /\ pc' = "returned_err"
    /\ cfg_readers' = cfg_readers - 1
    /\ sa_readers' = 0
    /\ i' = 0
    /\ vv' = EmptyMap
    /\ cur_index' = 0
    /\ resp' = <<>>
    /\ issued' = EmptyMap
    /\ query' = EmptyMap
    /\ round_log' = <<>>
    /\ seen' = <<>>
    /\ ret' = None
    /\ UNCHANGED task_vars
    /\ UNCHANGED client_vars
    /\ UNCHANGED <<CONSUL_CONFIG, SERVICES_ADDRESS, registry, raft_index>>

\* The way the task ends when it panics: unwinding drops the same.
Panic ==
    /\ pc' = "panicked"
    /\ cfg_readers' = cfg_readers - 1
    /\ sa_readers' = 0
    /\ i' = 0
    /\ vv' = EmptyMap
    /\ cur_index' = 0
    /\ resp' = <<>>
    /\ issued' = EmptyMap
    /\ query' = EmptyMap
    /\ round_log' = <<>>
    /\ seen' = <<>>
    /\ ret' = None
    /\ UNCHANGED task_vars
    /\ UNCHANGED client_vars
    /\ UNCHANGED <<CONSUL_CONFIG, SERVICES_ADDRESS, registry, raft_index>>

\* health_service up to client.send: "client init err" without a config,
\* new_request's panic and error, else the index lookup under the read guard.
HealthServiceSend ==
    /\ pc = "send"
    /\ IF ~is_some(CONSUL_CONFIG.config)
       THEN ReturnErr
       ELSE LET config == unwrap(CONSUL_CONFIG.config) IN
            IF ~is_some(config.address) THEN Panic
            ELSE IF ~UrlParseOk(unwrap(config.address)) THEN ReturnErr
            ELSE /\ pc' = "inflight"
                 /\ issued' = SERVICES_ADDRESS
                 /\ query' = health_service_query(SERVICES_ADDRESS, config,
                                                   watch_services[i])
                 /\ sa_readers' = sa_readers + 1
                 /\ cur_index' = health_service_index(SERVICES_ADDRESS,
                                                      watch_services[i])
                 /\ ret' = None
                 /\ UNCHANGED task_vars
                 /\ UNCHANGED client_vars
                 /\ UNCHANGED <<CONSUL_CONFIG, cfg_readers, SERVICES_ADDRESS, i, vv,
                                resp, round_log, seen, registry, raft_index>>

\* A failed query that also forgets the entry it was polling for.
HealthServiceFail_drops_entry ==
    /\ pc = "inflight"
    /\ pc' = "returned_err"
    /\ cfg_readers' = cfg_readers - 1
    /\ sa_readers' = 0
    /\ i' = 0
    /\ vv' = EmptyMap
    /\ cur_index' = 0
    /\ resp' = <<>>
    /\ issued' = EmptyMap
    /\ query' = EmptyMap
    /\ round_log' = <<>>
    /\ seen' = <<>>
    /\ ret' = None
    /\ UNCHANGED task_vars
    /\ UNCHANGED client_vars
    /\ SERVICES_ADDRESS' =
           [k \in (DOMAIN SERVICES_ADDRESS) \ {health_service_key(watch_services[i])}
               |-> SERVICES_ADDRESS[k]]
    /\ UNCHANGED <<CONSUL_CONFIG, registry, raft_index>>

\* client.send or body_json fails: network failure or malformed body.
HealthServiceFail ==
    /\ pc = "inflight"
    /\ ReturnErr

\* The registry answers the blocking query.
HealthServiceRecv ==
    /\ pc = "inflight"
    /\ \E body \in Responses : resp' = body
    /\ pc' = "received"
    /\ ret' = None
    /\ UNCHANGED task_vars
    /\ UNCHANGED client_vars
    /\ UNCHANGED <<CONSUL_CONFIG, cfg_readers, SERVICES_ADDRESS, sa_readers, i, vv,
                   cur_index, issued, query, round_log, seen, registry, raft_index>>

\* The "address:port" of every record of a response that carries both, in
\* response order.
RECURSIVE AllAddresses(_)
AllAddresses(entry) ==
    IF entry = <<>> THEN <<>>
    ELSE LET val == Head(entry) IN
         IF /\ is_some(val.Service)
            /\ is_some(unwrap(val.Service).Address)
            /\ is_some(unwrap(val.Service).Port)
         THEN <<unwrap(unwrap(val.Service).Address) \o ":"
                  \o to_string(unwrap(unwrap(val.Service).Port))>>
              \o AllAddresses(Tail(entry))
         ELSE AllAddresses(Tail(entry))

\* A response that signals no change for a cached key: the same instance list,
\* every record carrying the change index the cache holds.
NoChange(cache, key, entry) ==
    /\ key \in DOMAIN cache
    /\ entry # <<>>
    /\ \A n \in DOMAIN entry :
          /\ is_some(entry[n].Service)
          /\ unwrap(entry[n].Service).ModifyIndex = Some(cache[key].index)
    /\ AllAddresses(entry) = cache[key].address

\* What one poll of the round was: its target's key, whether get_address built
\* an empty address list, whether the response signalled no change.
PollKind(cache, watch_service, entry, result) ==
    [key |-> health_service_key(watch_service),
     empty |-> Len(result.service_address.address) = 0,
     nochange |-> NoChange(cache, health_service_key(watch_service), entry)]

\* health_service returns (its read guard is dropped), get_address builds the
\* result, the loop of watch_services puts it into vv and goes on to the next
\* future, or to the commit, or to the next round.
GetAddress ==
    /\ pc = "received"
    /\ LET result == get_address(watch_services[i], cur_index, resp) IN
       IF result.panic
       THEN Panic
       ELSE /\ vv' = IF result.key # ""
                     THEN insert(vv, result.key, result.service_address)
                     ELSE vv
            /\ round_log' = Append(round_log,
                                PollKind(SERVICES_ADDRESS, watch_services[i], resp, result))
            /\ seen' = [seen EXCEPT ![i] = Observe(@, resp)]
            /\ sa_readers' = sa_readers - 1
            /\ i' = i + 1
            /\ pc' = IF i < Len(watch_services) THEN "send"
                     ELSE IF Cardinality(DOMAIN vv') # 0 THEN "commit"
                     ELSE "round"
            /\ issued' = EmptyMap
            /\ query' = EmptyMap
            /\ ret' = None
            /\ UNCHANGED task_vars
            /\ UNCHANGED client_vars
            /\ UNCHANGED <<CONSUL_CONFIG, cfg_readers, SERVICES_ADDRESS, cur_index,
                           resp, registry, raft_index>>

\* A commit that appends the new addresses to those of the entry it finds.
Commit_merges ==
    /\ pc = "commit"
    /\ sa_readers = 0
    /\ SERVICES_ADDRESS' =
           [k \in (DOMAIN SERVICES_ADDRESS) \cup (DOMAIN vv) |->
               IF k \in DOMAIN vv
               THEN IF k \in DOMAIN SERVICES_ADDRESS
                    THEN [vv[k] EXCEPT !.address = SERVICES_ADDRESS[k].address \o @]
                    ELSE vv[k]
               ELSE SERVICES_ADDRESS[k]]
    /\ pc' = "round"
    /\ ret' = None
    /\ UNCHANGED task_vars
    /\ UNCHANGED client_vars
    /\ UNCHANGED <<CONSUL_CONFIG, cfg_readers, sa_readers, i, vv, cur_index, resp,
                   issued, query, round_log, seen, registry, raft_index>>

\* A commit that keeps nothing but the entries of this round.
Commit_forgets_others ==
    /\ pc = "commit"
    /\ sa_readers = 0
    /\ SERVICES_ADDRESS' = vv
    /\ pc' = "round"
    /\ ret' = None
    /\ UNCHANGED task_vars
    /\ UNCHANGED client_vars
    /\ UNCHANGED <<CONSUL_CONFIG, cfg_readers, sa_readers, i, vv, cur_index, resp,
                   issued, query, round_log, seen, registry, raft_index>>

\* A commit that returns to the top of the loop and leaves the inserts undone.
Commit_deferred ==
    /\ pc = "commit"
    /\ pc' = "round"
    /\ ret' = None
    /\ UNCHANGED task_vars
    /\ UNCHANGED client_vars
    /\ UNCHANGED <<CONSUL_CONFIG, cfg_readers, SERVICES_ADDRESS, sa_readers, i, vv,
                   cur_index, resp, issued, query, round_log, seen, registry,
                   raft_index>>

\* The commit: every entry of vv is inserted under the write lock.
Commit ==
    /\ pc = "commit"
    /\ sa_readers = 0
    /\ SERVICES_ADDRESS' =
           [k \in (DOMAIN SERVICES_ADDRESS) \cup (DOMAIN vv) |->
               IF k \in DOMAIN vv THEN vv[k] ELSE SERVICES_ADDRESS[k]]
    /\ pc' = "round"
    /\ ret' = None
    /\ UNCHANGED task_vars
    /\ UNCHANGED client_vars
    /\ UNCHANGED <<CONSUL_CONFIG, cfg_readers, sa_readers, i, vv, cur_index, resp,
                   issued, query, round_log, seen, registry, raft_index>>

(***************************************************************************)
(* Callers of random_policy                                                *)
(***************************************************************************)
\* A selection that keeps a cursor in the entry: it moves the first address of
\* the list of its key to the end.
RandomPolicy_rotates ==
    /\ \E call \in Calls :
         \E result \in random_policy(SERVICES_ADDRESS, call[1], call[2]) :
            /\ ret' = Some([service_name |-> call[1], tag |-> call[2],
                            result |-> result])
            /\ SERVICES_ADDRESS' =
                  [k \in DOMAIN SERVICES_ADDRESS |->
                     IF k = call[1] \o call[2]
                     THEN [SERVICES_ADDRESS[k] EXCEPT
                             !.address = Tail(@) \o <<Head(@)>>]
                     ELSE SERVICES_ADDRESS[k]]
    /\ UNCHANGED <<CONSUL_CONFIG, cfg_readers, sa_readers, pc, i,
                   vv, cur_index, resp, issued, query, round_log, seen, registry,
                   raft_index>>
    /\ UNCHANGED task_vars
    /\ UNCHANGED client_vars

\* One call of random_policy: the read guard is taken and dropped within the
\* call. ret holds the call and its outcome in the state the call leads to;
\* every other step sets it back to None.
RandomPolicy ==
    /\ \E call \in Calls :
         \E result \in random_policy(SERVICES_ADDRESS, call[1], call[2]) :
            ret' = Some([service_name |-> call[1], tag |-> call[2],
                         result |-> result])
    /\ UNCHANGED <<CONSUL_CONFIG, cfg_readers, SERVICES_ADDRESS, sa_readers, pc, i,
                   vv, cur_index, resp, issued, query, round_log, seen, registry,
                   raft_index>>
    /\ UNCHANGED task_vars
    /\ UNCHANGED client_vars

(***************************************************************************)
(* The registry changes                                                    *)
(***************************************************************************)
\* The registry is observed by nothing but a blocking query, which waits on it:
\* its changes are taken while a query is in flight.
\* An instance is registered, or registered again: it gets the next index.
RegistryRegister ==
    /\ pc = "inflight"
    /\ raft_index < MaxIndex
    /\ raft_index' = raft_index + 1
    /\ \E h \in Instances, shape \in Shapes :
          registry' = [registry EXCEPT ![h] =
                          [up |-> TRUE, shape |-> shape, ModifyIndex |-> raft_index']]
    /\ ret' = None
    /\ UNCHANGED task_vars
    /\ UNCHANGED client_vars
    /\ UNCHANGED <<CONSUL_CONFIG, cfg_readers, SERVICES_ADDRESS, sa_readers, pc, i,
                   vv, cur_index, resp, issued, query, round_log, seen>>

\* An instance is deregistered, or stops passing its checks.
RegistryDeregister ==
    /\ pc = "inflight"
    /\ raft_index < MaxIndex
    /\ raft_index' = raft_index + 1
    /\ \E h \in Instances :
          /\ registry[h].up
          /\ registry' = [registry EXCEPT ![h] = Down]
    /\ ret' = None
    /\ UNCHANGED task_vars
    /\ UNCHANGED client_vars
    /\ UNCHANGED <<CONSUL_CONFIG, cfg_readers, SERVICES_ADDRESS, sa_readers, pc, i,
                   vv, cur_index, resp, issued, query, round_log, seen>>

Next ==
    \/ LoadConfig
    \/ WatchStart
    \/ RoundStart
    \/ HealthServiceSend
    \/ HealthServiceFail
    \/ HealthServiceRecv
    \/ GetAddress
    \/ Commit
    \/ RandomPolicy
    \/ RegistryRegister
    \/ RegistryDeregister

Spec == Init /\ [][Next]_vars

(***************************************************************************)
(* The tasks around the lock of SERVICES_ADDRESS, step by step: two         *)
(* watch_services tasks, each from the last blocking query of a round to   *)
(* the end of its commit, and a caller of random_policy.  A step is what a *)
(* task does between two points where the RwLock or the scheduler lets     *)
(* another task run.  A read lock is granted whenever no write guard is    *)
(* held, whether or not a writer waits.                                    *)
(***************************************************************************)
Tasks == {"t1", "t2"}

\* The keys of the targets the tasks watch: web and ("ab", "c").
TaskKeys == {health_service_key(web), health_service_key(ab_c)}

\* The entry get_address built in the round of task t.
EntryOf(t) ==
    IF t = "t1"
    THEN ServiceAddress(2, <<"10.0.0.2:8080">>, <<"10.0.0.2:8080">>)
    ELSE ServiceAddress(3, <<"10.0.0.2:8080", "10.0.0.1:8080">>,
                           <<"10.0.0.2:8080", "10.0.0.1:8080">>)

\* The vv a round of task t can end with when the commit is reached: an entry
\* for some of the keys, at least one.
RoundResults(t) ==
    {[k \in D |-> EntryOf(t)] : D \in (SUBSET TaskKeys) \ {{}}}

\* The cache an earlier round left: web is cached, ("ab", "c") is not.
OldCache ==
    insert(EmptyMap, health_service_key(web),
           ServiceAddress(1, <<"10.0.0.1:8080", "10.0.0.2:8080">>,
                             <<"10.0.0.1:8080", "10.0.0.2:8080">>))

\* Both tasks are in their loop (each holds a read guard of CONSUL_CONFIG), at
\* the blocking query that ends their round; nobody holds SERVICES_ADDRESS.
InitTasks ==
    /\ CONSUL_CONFIG = [config |-> OkConfig, watch_services |-> Some(<<web, ab_c>>)]
    /\ cfg_readers = Cardinality(Tasks)
    /\ SERVICES_ADDRESS = OldCache
    /\ sa_readers = 0
    /\ sa_writers = 0
    /\ commits = [t \in Tasks |-> [pc |-> "send", vv |-> EmptyMap, todo |-> {}]]
    /\ sel = Idle
    /\ cfg_writers = 0
    /\ load = NotLoading
    /\ sent = {}
    /\ ret = None
    /\ pc = "init"
    /\ i = 0
    /\ vv = EmptyMap
    /\ cur_index = 0
    /\ resp = <<>>
    /\ issued = EmptyMap
    /\ query = EmptyMap
    /\ round_log = <<>>
    /\ seen = <<>>
    /\ registry = [h \in Instances |-> Down]
    /\ raft_index = 0

\* health_service up to client.send: services_addresses.read().await is granted
\* when no write guard is held, and the guard lives on while the query is in
\* flight.
PollSend(t) ==
    /\ commits[t].pc = "send"
    /\ sa_writers = 0
    /\ sa_readers' = sa_readers + 1
    /\ commits' = [commits EXCEPT ![t].pc = "inflight"]
    /\ UNCHANGED <<SERVICES_ADDRESS, sa_writers, sel, ret>>
    /\ UNCHANGED loop_vars
    /\ UNCHANGED client_vars

\* A health_service whose read guard outlives its return.
PollRecv_keeps_guard(t) ==
    /\ commits[t].pc = "inflight"
    /\ \E r \in RoundResults(t) :
          commits' = [commits EXCEPT ![t].pc = "commit", ![t].vv = r]
    /\ UNCHANGED <<SERVICES_ADDRESS, sa_readers, sa_writers, sel, ret>>
    /\ UNCHANGED loop_vars
    /\ UNCHANGED client_vars

\* The response arrives: health_service returns, which drops its read guard,
\* and the round ends with a vv that is not empty.
PollRecv(t) ==
    /\ commits[t].pc = "inflight"
    /\ sa_readers' = sa_readers - 1
    /\ \E r \in RoundResults(t) :
          commits' = [commits EXCEPT ![t].pc = "commit", ![t].vv = r]
    /\ UNCHANGED <<SERVICES_ADDRESS, sa_writers, sel, ret>>
    /\ UNCHANGED loop_vars
    /\ UNCHANGED client_vars

\* A write lock that is granted while read guards are held.
CommitLock_ignores_readers(t) ==
    /\ commits[t].pc = "commit"
    /\ sa_writers = 0
    /\ sa_writers' = sa_writers + 1
    /\ commits' = [commits EXCEPT ![t].pc = "insert", ![t].todo = DOMAIN commits[t].vv]
    /\ UNCHANGED <<SERVICES_ADDRESS, sa_readers, sel, ret>>
    /\ UNCHANGED loop_vars
    /\ UNCHANGED client_vars

\* services_addresses.write().await: granted when no guard is held.
CommitLock(t) ==
    /\ commits[t].pc = "commit"
    /\ sa_readers = 0
    /\ sa_writers = 0
    /\ sa_writers' = sa_writers + 1
    /\ commits' = [commits EXCEPT ![t].pc = "insert", ![t].todo = DOMAIN commits[t].vv]
    /\ UNCHANGED <<SERVICES_ADDRESS, sa_readers, sel, ret>>
    /\ UNCHANGED loop_vars
    /\ UNCHANGED client_vars

\* One turn of the loop over vv.iter(), which visits the keys in any order.
CommitInsert(t) ==
    /\ commits[t].pc = "insert"
    /\ \E key \in commits[t].todo :
          /\ SERVICES_ADDRESS' = insert(SERVICES_ADDRESS, key, commits[t].vv[key])
          /\ commits' = [commits EXCEPT ![t].todo = @ \ {key}]
    /\ UNCHANGED <<sa_readers, sa_writers, sel, ret>>
    /\ UNCHANGED loop_vars
    /\ UNCHANGED client_vars

\* The end of the if block drops the write guard; the loop is at its top again.
CommitUnlock(t) ==
    /\ commits[t].pc = "insert"
    /\ commits[t].todo = {}
    /\ sa_writers' = sa_writers - 1
    /\ commits' = [commits EXCEPT ![t].pc = "done"]
    /\ UNCHANGED <<SERVICES_ADDRESS, sa_readers, sel, ret>>
    /\ UNCHANGED loop_vars
    /\ UNCHANGED client_vars

\* A read lock that is granted while the write guard is held.
RandomPolicyLock_ignores_writer ==
    /\ sel.pc = "idle"
    /\ sa_readers' = sa_readers + 1
    /\ \E call \in Calls :
          sel' = [pc |-> "locked", call |-> call, held |-> SERVICES_ADDRESS,
                  range |-> 0]
    /\ ret' = None
    /\ UNCHANGED <<SERVICES_ADDRESS, sa_writers, commits>>
    /\ UNCHANGED loop_vars
    /\ UNCHANGED client_vars

\* A lock that admits one holder at a time, reader or writer.
RandomPolicyLock_exclusive ==
    /\ sel.pc = "idle"
    /\ sa_writers = 0
    /\ sa_readers = 0
    /\ sa_readers' = sa_readers + 1
    /\ \E call \in Calls :
          sel' = [pc |-> "locked", call |-> call, held |-> SERVICES_ADDRESS,
                  range |-> 0]
    /\ ret' = None
    /\ UNCHANGED <<SERVICES_ADDRESS, sa_writers, commits>>
    /\ UNCHANGED loop_vars
    /\ UNCHANGED client_vars

\* random_policy is called: services_addresses.read().await is granted when no
\* write guard is held.
RandomPolicyLock ==
    /\ sel.pc = "idle"
    /\ sa_writers = 0
    /\ sa_readers' = sa_readers + 1
    /\ \E call \in Calls :
          sel' = [pc |-> "locked", call |-> call, held |-> SERVICES_ADDRESS,
                  range |-> 0]
    /\ ret' = None
    /\ UNCHANGED <<SERVICES_ADDRESS, sa_writers, commits>>
    /\ UNCHANGED loop_vars
    /\ UNCHANGED client_vars

\* random_policy returns result: the read guard is dropped.
RandomPolicyReturn(result) ==
    /\ ret' = Some([service_name |-> sel.call[1], tag |-> sel.call[2],
                    result |-> result])
    /\ sa_readers' = sa_readers - 1
    /\ sel' = [sel EXCEPT !.pc = "idle"]
    /\ UNCHANGED <<SERVICES_ADDRESS, sa_writers, commits>>
    /\ UNCHANGED loop_vars
    /\ UNCHANGED client_vars

\* get(&key) and address.len(): the two early returns, or the range is known.
RandomPolicyGet ==
    /\ sel.pc = "locked"
    /\ LET key == sel.call[1] \o sel.call[2] IN
       IF key \in DOMAIN SERVICES_ADDRESS
       THEN LET range == Len(SERVICES_ADDRESS[key].address) IN
            IF range = 0
            THEN RandomPolicyReturn(NotFound)
            ELSE /\ sel' = [sel EXCEPT !.pc = "range", !.range = range]
                 /\ UNCHANGED <<SERVICES_ADDRESS, sa_readers, sa_writers, commits, ret>>
                 /\ UNCHANGED loop_vars
                 /\ UNCHANGED client_vars
       ELSE \E result \in random_policy_absent : RandomPolicyReturn(result)

\* gen_range(0..range) and address.get(idx).unwrap().
RandomPolicyPick ==
    /\ sel.pc = "range"
    /\ LET key == sel.call[1] \o sel.call[2] IN
       \E idx \in gen_range(sel.range) :
          RandomPolicyReturn(get_unwrap(SERVICES_ADDRESS[key].address, idx))

NextTasks ==
    \/ \E t \in Tasks : PollSend(t)
    \/ \E t \in Tasks : PollRecv(t)
    \/ \E t \in Tasks : CommitLock(t)
    \/ \E t \in Tasks : CommitInsert(t)
    \/ \E t \in Tasks : CommitUnlock(t)
    \/ RandomPolicyLock
    \/ RandomPolicyGet
    \/ RandomPolicyPick

SpecTasks == InitTasks /\ [][NextTasks]_vars

\* The tasks under the scheduling the executor and the lock give them: a
\* query in flight is answered, a task that can run its next step runs it,
\* and a task that awaits the write lock is granted it if the lock is free
\* again and again (the lock does not starve a waiting writer).
FairSpecTasks ==
    /\ SpecTasks
    /\ \A t \in Tasks : /\ WF_vars(PollRecv(t))
                        /\ SF_vars(CommitLock(t))
                        /\ WF_vars(CommitInsert(t))
                        /\ WF_vars(CommitUnlock(t))
    /\ WF_vars(RandomPolicyGet)
    /\ WF_vars(RandomPolicyPick)


(***************************************************************************)
(* get_address on any response body: the watch_services task has received *)
(* the response to the query for its one target, web, and the body is any  *)
(* list of at most MaxRecords records the registry's JSON can decode to.   *)
(***************************************************************************)
\* A ServiceEntry as body_json decodes it: every field may be absent.
Records ==
    {[Service |-> None]}
    \cup {[Service |-> Some([Address |-> a, Port |-> p, ModifyIndex |-> m])] :
            a \in {None} \cup {Some(h) : h \in Instances},
            p \in {None, Some(ServicePort)},
            m \in {None} \cup {Some(n) : n \in 0..MaxIndex}}

Bodies == UNION {[1..n -> Records] : n \in 0..MaxRecords}

\* The cache whose entry for web has index c; without an entry when c = 0.
CacheWithIndex(c) ==
    IF c = 0 THEN EmptyMap
    ELSE insert(EmptyMap, health_service_key(web),
                ServiceAddress(c, <<"10.0.0.1:8080">>, <<"10.0.0.1:8080">>))

InitGetAddress ==
    /\ CONSUL_CONFIG = [config |-> OkConfig, watch_services |-> Some(<<web>>)]
    /\ cfg_readers = 1
    /\ \E c \in 0..MaxIndex :
          /\ SERVICES_ADDRESS = CacheWithIndex(c)
          /\ issued = CacheWithIndex(c)
          /\ cur_index = health_service_index(CacheWithIndex(c), web)
          /\ query = health_service_query(CacheWithIndex(c), unwrap(OkConfig), web)
    /\ sa_readers = 1
    /\ pc = "received"
    /\ i = 1
    /\ vv = EmptyMap
    /\ resp \in Bodies
    /\ round_log = <<>>
    /\ seen = <<NoneSeen>>
    /\ registry = [h \in Instances |-> Down]
    /\ raft_index = 0
    /\ ret = None
    /\ sa_writers = 0
    /\ commits = <<>>
    /\ sel = Idle
    /\ cfg_writers = 0
    /\ load = NotLoading
    /\ sent = {}

NextGetAddress ==
    \/ GetAddress
    \/ Commit

SpecGetAddress == InitGetAddress /\ [][NextGetAddress]_vars

(***************************************************************************)
(* load_config and the client calls around the lock of CONSUL_CONFIG, step *)
(* by step: one load_config call at a time, and a caller that takes the    *)
(* read guard of CONSUL_CONFIG and calls service_register_self,            *)
(* service_deregister or health_service on it.  A path is the sequence of  *)
(* its pieces, the extension last; a file's content is its format and the  *)
(* ConsulConfig its text spells.                                           *)
(***************************************************************************)
Err(message) == [ok |-> FALSE, value |-> message]

\* The error of a client call on a ConsulConfig whose config is None.
ClientInitErr == Err("client init err")

Paths == {<<"consul", ".yml">>, <<"consul", ".yaml">>, <<"consul", ".toml">>,
          <<"consul", ".json">>}

\* str::ends_with, for a suffix that is one piece of the path.
ends_with(path, suffix) == path # <<>> /\ path[Len(path)] = suffix

Contents ==
    {[format |-> f, value |-> v] : f \in {"yaml", "toml"}, v \in ConfigFiles}
    \cup {[format |-> "text", value |-> DefaultConsulConfig]}

\* read_to_string(path).await: the content of the file, or an I/O error.
read_to_string(path) == {Err("io")} \cup {Ok(c) : c \in Contents}

\* serde_yaml::from_str and toml::from_str: the value of a text of their own
\* format, an error for any other text.
serde_yaml_from_str(content) ==
    IF content.format = "yaml" THEN Ok(content.value) ELSE Err("yaml")

toml_from_str(content) ==
    IF content.format = "toml" THEN Ok(content.value) ELSE Err("toml")

\* load_config from the content to the local config: the parser is chosen by
\* the extension and a path of another extension keeps the default.
load_config_parse(path, content) ==
    IF ends_with(path, ".yml") \/ ends_with(path, ".yaml")
    THEN serde_yaml_from_str(content)
    ELSE IF ends_with(path, ".toml")
    THEN toml_from_str(content)
    ELSE Ok(DefaultConsulConfig)

\* A load_config call and its outcome, as kept in ret.
LoadConfigCall(path, result) ==
    Some([call |-> "load_config", arg |-> path, result |-> result])

\* load_config is called: the file is read and parsed.  An error returns at
\* once; otherwise the call goes on to consul_config.write().await.
LoadConfigStart ==
    /\ load.pc = "idle"
    /\ \E path \in Paths : \E content \in read_to_string(path) :
          IF ~content.ok
          THEN /\ ret' = LoadConfigCall(path, content)
               /\ UNCHANGED load
          ELSE LET config == load_config_parse(path, content.value) IN
               IF ~config.ok
               THEN /\ ret' = LoadConfigCall(path, config)
                    /\ UNCHANGED load
               ELSE /\ load' = [pc |-> "write", path |-> path,
                                config |-> Some(config.value)]
                    /\ ret' = None
    /\ UNCHANGED <<CONSUL_CONFIG, cfg_readers, cfg_writers, sent, SERVICES_ADDRESS,
                   sa_readers>>
    /\ UNCHANGED <<pc, i, vv, cur_index, resp, issued, query, round_log, seen,
                   registry, raft_index>>
    /\ UNCHANGED task_vars

\* A write lock that is granted while a read guard is held.
LoadConfigLock_ignores_readers ==
    /\ load.pc = "write"
    /\ cfg_writers = 0
    /\ cfg_writers' = cfg_writers + 1
    /\ load' = [load EXCEPT !.pc = "locked"]
    /\ ret' = None
    /\ UNCHANGED <<CONSUL_CONFIG, cfg_readers, sent, SERVICES_ADDRESS, sa_readers>>
    /\ UNCHANGED <<pc, i, vv, cur_index, resp, issued, query, round_log, seen,
                   registry, raft_index>>
    /\ UNCHANGED task_vars

\* consul_config.write().await: granted when no guard is held.
LoadConfigLock ==
    /\ load.pc = "write"
    /\ cfg_readers = 0
    /\ cfg_writers = 0
    /\ cfg_writers' = cfg_writers + 1
    /\ load' = [load EXCEPT !.pc = "locked"]
    /\ ret' = None
    /\ UNCHANGED <<CONSUL_CONFIG, cfg_readers, sent, SERVICES_ADDRESS, sa_readers>>
    /\ UNCHANGED <<pc, i, vv, cur_index, resp, issued, query, round_log, seen,
                   registry, raft_index>>
    /\ UNCHANGED task_vars

\* consul_config.config = config.config
LoadConfigAssignConfig ==
    /\ load.pc = "locked"
    /\ CONSUL_CONFIG' = [CONSUL_CONFIG EXCEPT !.config = unwrap(load.config).config]
    /\ load' = [load EXCEPT !.pc = "config_assigned"]
    /\ ret' = None
    /\ UNCHANGED <<cfg_readers, cfg_writers, sent, SERVICES_ADDRESS, sa_readers>>
    /\ UNCHANGED <<pc, i, vv, cur_index, resp, issued, query, round_log, seen,
                   registry, raft_index>>
    /\ UNCHANGED task_vars

\* consul_config.watch_services = config.watch_services; Ok(()) is returned
\* and the write guard is dropped.
LoadConfigAssignWatchServices ==
    /\ load.pc = "config_assigned"
    /\ CONSUL_CONFIG' = [CONSUL_CONFIG EXCEPT
                            !.watch_services = unwrap(load.config).watch_services]
    /\ cfg_writers' = cfg_writers - 1
    /\ load' = NotLoading
    /\ ret' = LoadConfigCall(load.path, Ok(<<>>))
    /\ UNCHANGED <<cfg_readers, sent, SERVICES_ADDRESS, sa_readers>>
    /\ UNCHANGED <<pc, i, vv, cur_index, resp, issued, query, round_log, seen,
                   registry, raft_index>>
    /\ UNCHANGED task_vars

\* The client functions that look at self.config first, and the path each
\* of them requests.
ClientFunctions == {"service_register_self", "service_deregister", "health_service"}

request_path(function) ==
    IF function = "service_register_self" THEN "/v1/agent/service/register"
    ELSE IF function = "service_deregister" THEN "/v1/agent/service/deregister/321"
    ELSE "/v1/health/service/" \o web.service_name

\* new_request and client.send: the outcomes of a call whose config is
\* present.  A missing address panics, an address that is no URL is an error,
\* and a request that was sent is answered or fails on the way.
client_send(self, cache, function) ==
    LET config == unwrap(self.config) IN
    IF ~is_some(config.address) THEN {[result |-> Panicked, sent |-> {}]}
    ELSE IF ~UrlParseOk(unwrap(config.address))
    THEN {[result |-> Err("url"), sent |-> {}]}
    ELSE {[result |-> r, sent |-> {request_path(function)}] :
            r \in {Err("network"),
                   IF function = "health_service"
                   THEN Ok(<<health_service_index(cache, web), <<>>>>)
                   ELSE Ok("200 OK")}}

\* A client call that builds its request without looking at self.config.
client_call_unchecked(self, cache, function) ==
    IF is_some(self.config)
    THEN client_send(self, cache, function)
    ELSE {[result |-> Panicked, sent |-> {}]}

\* service_register_self, service_deregister and health_service on self: the
\* outcomes of the call and the requests it sends.
client_call(self, cache, function) ==
    IF is_some(self.config)
    THEN client_send(self, cache, function)
    ELSE {[result |-> ClientInitErr, sent |-> {}]}

\* The caller takes the read guard: CONSUL_CONFIG.read().await is granted when
\* no write guard is held.
ClientRead ==
    /\ cfg_readers = 0
    /\ cfg_writers = 0
    /\ cfg_readers' = cfg_readers + 1
    /\ ret' = None
    /\ UNCHANGED <<CONSUL_CONFIG, cfg_writers, load, sent, SERVICES_ADDRESS, sa_readers>>
    /\ UNCHANGED <<pc, i, vv, cur_index, resp, issued, query, round_log, seen,
                   registry, raft_index>>
    /\ UNCHANGED task_vars

\* The caller calls one of the functions on the guarded ConsulConfig and drops
\* the guard when the call has returned.  health_service takes and drops its
\* read guard of SERVICES_ADDRESS within the call.
ClientCall ==
    /\ cfg_readers = 1
    /\ \E function \in ClientFunctions :
       \E outcome \in client_call(CONSUL_CONFIG, SERVICES_ADDRESS, function) :
          /\ ret' = Some([call |-> function, arg |-> CONSUL_CONFIG,
                          result |-> outcome.result])
          /\ sent' = sent \cup outcome.sent
    /\ cfg_readers' = cfg_readers - 1
    /\ UNCHANGED <<CONSUL_CONFIG, cfg_writers, load, SERVICES_ADDRESS, sa_readers>>
    /\ UNCHANGED <<pc, i, vv, cur_index, resp, issued, query, round_log, seen,
                   registry, raft_index>>
    /\ UNCHANGED task_vars

NextClient ==
    \/ LoadConfigStart
    \/ LoadConfigLock
    \/ LoadConfigAssignConfig
    \/ LoadConfigAssignWatchServices
    \/ ClientRead
    \/ ClientCall

SpecClient == Init /\ [][NextClient]_vars

(***************************************************************************)
(* Properties                                                              *)
(***************************************************************************)
Keys == (DOMAIN SERVICES_ADDRESS) \cup (DOMAIN SERVICES_ADDRESS')

\* The polls of the round so far that were made for key K.
PollsFor(K) == {n \in DOMAIN round_log : round_log[n].key = K}

\* A round is over: every future was awaited and the loop is back at its top.
RoundDone ==
    /\ pc = "round"
    /\ round_log # <<>>
    /\ Len(round_log) = Len(watch_services)

\* C1. Last known good: when the polls of a round for key K yield an empty
\* address list, the entry of K after the round is the entry before it (the
\* entry of a key changes only in the commit of a round in which a poll for it
\* built a non-empty list), and a non-empty cached address list is never
\* replaced by an empty one.
C1_LastKnownGood ==
    [][/\ \A K \in Keys :
            (\A n \in PollsFor(K) : round_log[n].empty)
            => /\ (K \in DOMAIN SERVICES_ADDRESS) = (K \in DOMAIN SERVICES_ADDRESS')
               /\ K \in DOMAIN SERVICES_ADDRESS
                     => SERVICES_ADDRESS'[K] = SERVICES_ADDRESS[K]
       /\ \A K \in DOMAIN SERVICES_ADDRESS :
            SERVICES_ADDRESS[K].address # <<>>
            => /\ K \in DOMAIN SERVICES_ADDRESS'
               /\ SERVICES_ADDRESS'[K].address # <<>>]_vars

\* A round ended in which the registry answered a poll for a cached key with
\* zero instances, and the key still has its addresses.
C1_Witness ==
    /\ RoundDone
    /\ resp = <<>>
    /\ \E n \in DOMAIN round_log :
          /\ round_log[n].empty
          /\ round_log[n].key \in DOMAIN SERVICES_ADDRESS
          /\ SERVICES_ADDRESS[round_log[n].key].address # <<>>

\* C2. A failed blocking query does not corrupt the cache: when the query in
\* flight fails, every key holds the entry it held when the poll was issued,
\* and nothing changes the cache after the loop has ended with the error.
C2_FailedQueryKeepsCache ==
    [][/\ (pc = "inflight" /\ pc' = "returned_err") => SERVICES_ADDRESS' = issued
       /\ pc = "returned_err" => SERVICES_ADDRESS' = SERVICES_ADDRESS]_vars

\* A query failed while the cache held entries.
C2_Witness ==
    /\ pc = "returned_err"
    /\ DOMAIN SERVICES_ADDRESS # {}

\* C3. A failed poll for one target is independent of the other targets: the
\* entries the other targets of the round produced are committed although the
\* poll of one target fails.
C3_FailedPollIsIndependent ==
    [][(pc = "inflight" /\ pc' = "returned_err")
       => \A K \in DOMAIN vv :
             /\ K \in DOMAIN SERVICES_ADDRESS'
             /\ SERVICES_ADDRESS'[K] = vv[K]]_vars

\* C4. The watch loop has no terminal state: after a poll fails the loop goes
\* on (to the next future, the commit or the next round) and never returns.
C4_LoopNeverReturns ==
    [][pc = "inflight" => pc' # "returned_err"]_vars

\* C5. random_policy on a key absent from the cache returns the not-found
\* error: no address, no out-of-range pick, no panic.
C5_AbsentKeyNotFound ==
    is_some(ret) =>
        LET call == unwrap(ret) IN
        (call.service_name \o call.tag) \notin DOMAIN SERVICES_ADDRESS
        => call.result = NotFound

\* random_policy was called for a key that is absent while another is cached.
C5_Witness ==
    /\ is_some(ret)
    /\ (unwrap(ret).service_name \o unwrap(ret).tag) \notin DOMAIN SERVICES_ADDRESS
    /\ DOMAIN SERVICES_ADDRESS # {}

\* C6. For a key cached with a non-empty address list L the values
\* random_policy can return are exactly the elements of L: every call returns
\* Ok with an element of L, and every element of L is a possible outcome.
C6_SelectsExactlyTheCached ==
    /\ \A call \in Calls :
          LET key == call[1] \o call[2] IN
          (key \in DOMAIN SERVICES_ADDRESS /\ SERVICES_ADDRESS[key].address # <<>>)
          => random_policy(SERVICES_ADDRESS, call[1], call[2])
                = {Ok(a) : a \in Range(SERVICES_ADDRESS[key].address)}
    /\ is_some(ret) =>
          LET call == unwrap(ret)
              key == call.service_name \o call.tag
          IN (key \in DOMAIN SERVICES_ADDRESS /\ SERVICES_ADDRESS[key].address # <<>>)
             => /\ call.result.ok
                /\ call.result.value \in Range(SERVICES_ADDRESS[key].address)

\* random_policy returned the second of two cached addresses.
C6_Witness ==
    /\ is_some(ret)
    /\ LET call == unwrap(ret)
           key == call.service_name \o call.tag
       IN /\ key \in DOMAIN SERVICES_ADDRESS
          /\ Len(SERVICES_ADDRESS[key].address) = 2
          /\ call.result = Ok(SERVICES_ADDRESS[key].address[2])

\* C7. After successful polls of one target with strictly increasing change
\* indices, the index stored in the target's entry is the maximum change
\* index seen in the responses of those polls.
C7_StoredIndexIsMaxSeen ==
    RoundDone =>
        \A t \in DOMAIN watch_services :
            LET key == health_service_key(watch_services[t]) IN
            (/\ seen[t].increasing
             /\ key \in DOMAIN SERVICES_ADDRESS
             /\ \A u \in DOMAIN watch_services :
                   u # t => health_service_key(watch_services[u]) # key)
            => SERVICES_ADDRESS[key].index = seen[t].max

\* C8. The index stored for a key never decreases from one commit to the next
\* (the registry of this model never lowers the change index of a record).
C8_StoredIndexNeverDecreases ==
    [][\A K \in DOMAIN SERVICES_ADDRESS :
          /\ K \in DOMAIN SERVICES_ADDRESS'
          /\ SERVICES_ADDRESS'[K].index >= SERVICES_ADDRESS[K].index]_vars

\* C9. No-change poll: when the response for a cached key K is the same
\* instance list with every record at the cached index, the poll completes
\* without error and the entry of K keeps its index and its address list.
C9_NoChangePoll ==
    [][/\ (/\ pc = "received"
           /\ NoChange(SERVICES_ADDRESS, health_service_key(watch_services[i]), resp))
          => /\ pc' \notin {"returned_err", "panicked"}
             /\ SERVICES_ADDRESS' = SERVICES_ADDRESS
       /\ \A K \in DOMAIN SERVICES_ADDRESS :
            (PollsFor(K) # {} /\ \A n \in PollsFor(K) : round_log[n].nochange)
            => /\ K \in DOMAIN SERVICES_ADDRESS'
               /\ SERVICES_ADDRESS'[K] = SERVICES_ADDRESS[K]]_vars

\* A round that committed an entry for one key ended with a no-change poll for
\* another key, which still has its addresses.
C9_Witness ==
    /\ RoundDone
    /\ \E n, m \in DOMAIN round_log :
          /\ round_log[n].nochange
          /\ ~round_log[m].empty
          /\ SERVICES_ADDRESS[round_log[n].key].address # <<>>

\* C10. A committed entry represents the full instance set of the response
\* that produced it: after the commit of a round, the entry of the round's last
\* target lists the address:port of every record of its response that carries
\* both, the instances that did not change included.
C10_EntryIsFullInstanceSet ==
    (RoundDone /\ ~round_log[Len(round_log)].empty)
    => LET key == round_log[Len(round_log)].key IN
       Range(AllAddresses(resp)) \subseteq Range(SERVICES_ADDRESS[key].address)

\* The entries key K can hold in SpecTasks: the one cached before the commits
\* and the ones the tasks commit for it.
WholeEntries(K) ==
    {OldCache[k] : k \in {K} \cap DOMAIN OldCache}
    \cup {commits[t].vv[K] : t \in {u \in Tasks : K \in DOMAIN commits[u].vv}}

\* C11. Writes to different keys never lose an update: when the two tasks,
\* whose vv have no key in common, have both committed (in either order, with
\* reads in between), the cache holds for every key of each vv the entry that
\* task inserted.
C11_NoLostUpdate ==
    (/\ \A t \in Tasks : commits[t].pc = "done"
     /\ DOMAIN commits["t1"].vv \cap DOMAIN commits["t2"].vv = {})
    => \A t \in Tasks : \A K \in DOMAIN commits[t].vv :
          /\ K \in DOMAIN SERVICES_ADDRESS
          /\ SERVICES_ADDRESS[K] = commits[t].vv[K]

\* Both tasks have committed, one its entry for web and the other its entry
\* for ("ab", "c").
C11_Witness ==
    /\ \A t \in Tasks : commits[t].pc = "done"
    /\ DOMAIN commits["t1"].vv \cap DOMAIN commits["t2"].vv = {}
    /\ SERVICES_ADDRESS[health_service_key(web)] # OldCache[health_service_key(web)]

\* C12. A random_policy call that runs while commits for its key are under way
\* sees one whole entry: the entry it read under its guard is the one cached
\* before the commits or one a task committed, and what it returns is what
\* random_policy returns on that entry (an element of its address list).
C12_ReadSeesWholeEntry ==
    is_some(ret) =>
        LET call == unwrap(ret)
            key == call.service_name \o call.tag
        IN /\ call.result \in random_policy(sel.held, call.service_name, call.tag)
           /\ key \in DOMAIN sel.held => sel.held[key] \in WholeEntries(key)

\* random_policy returned an address of the entry one task committed for web
\* while the other task waits for the write lock to commit web.
C12_Witness ==
    /\ is_some(ret)
    /\ unwrap(ret).result.ok
    /\ unwrap(ret).service_name = "web"
    /\ \E t, u \in Tasks :
          /\ commits[t].pc = "done"
          /\ commits[u].pc = "commit"
          /\ health_service_key(web) \in DOMAIN commits[u].vv
          /\ health_service_key(web) \in DOMAIN commits[t].vv
          /\ sel.held[health_service_key(web)] = commits[t].vv[health_service_key(web)]

\* C13. The queries of a round run in parallel: with two or more targets,
\* when a query of the round completes (its response arrives) the query of
\* every target of the round has been issued.  The futures run in the order of
\* service_await, so the queries issued so far are those of targets 1..i.
C13_QueriesRunInParallel ==
    [][(pc = "inflight" /\ pc' = "received" /\ Len(watch_services) >= 2)
       => i = Len(watch_services)]_vars

\* The (service_name, tag) pair of a target, an absent tag being the empty tag.
TargetPair(watch_service) ==
    <<watch_service.service_name, unwrap_or(watch_service.tag, "")>>

\* C14. The cache key is collision-free: when a round reaches its commit, two
\* targets with different (service_name, tag) pairs whose polls both built an
\* address list have different keys, so each has its own entry in vv and in the
\* cache.
C14_KeyIsCollisionFree ==
    pc = "commit" =>
        \A m, n \in DOMAIN round_log :
            (/\ TargetPair(watch_services[m]) # TargetPair(watch_services[n])
             /\ ~round_log[m].empty
             /\ ~round_log[n].empty)
            => round_log[m].key # round_log[n].key

\* C15. An empty result is not an error: with a client configuration present,
\* for a response without a record that carries both an address and a port,
\* get_address returns Ok with the empty key and the default (empty) entry, and
\* the loop goes on without error and without a new entry in vv: to the next
\* future, or, the round being over, to the commit or the next round.
C15_EmptyResultIsOk ==
    [][(pc = "received" /\ pc' # "received" /\ AllAddresses(resp) = <<>>)
       => LET result == get_address(watch_services[i], cur_index, resp) IN
          /\ ~result.panic
          /\ result.key = ""
          /\ result.service_address = DefaultServiceAddress
          /\ pc' = IF i < Len(watch_services) THEN "send"
                   ELSE IF DOMAIN vv # {} THEN "commit" ELSE "round"
          /\ vv' = vv]_vars

\* A round ended whose last response listed instances, none with a port.
C15_Witness ==
    /\ RoundDone
    /\ resp # <<>>
    /\ AllAddresses(resp) = <<>>
    /\ round_log[Len(round_log)].empty
    /\ is_some(CONSUL_CONFIG.config)

\* C16. Misconfiguration fails at startup, not at poll time: a base address
\* that load_config accepted never makes a blocking query of the loop fail
\* before it is sent, that is, with a client configuration and a base address
\* present the step that builds and sends the request does not end the loop
\* with an error.
C16_MisconfigurationFailsAtStartup ==
    [][(/\ pc = "send"
        /\ is_some(CONSUL_CONFIG.config)
        /\ is_some(unwrap(CONSUL_CONFIG.config).address))
       => pc' # "returned_err"]_vars

\* The watch_services task is in its loop.
Running == pc \in {"round", "send", "inflight", "received", "commit"}

\* C17. The target list is immutable while watch_services runs: no step taken
\* while the task is in its loop, a concurrent load_config included, changes
\* the list the rounds iterate.
C17_TargetsImmutableWhileRunning ==
    [][Running => CONSUL_CONFIG'.watch_services = CONSUL_CONFIG.watch_services]_vars

\* The loop began its second round over two targets with both committed, while
\* load_config has other target lists to offer.
C17_Witness ==
    /\ pc = "send"
    /\ i = 1
    /\ Len(watch_services) = 2
    /\ Cardinality(DOMAIN SERVICES_ADDRESS) = 2
    /\ \E file \in ConfigFiles :
          file.watch_services # CONSUL_CONFIG.watch_services

\* A watched target with cache key K asks for round-robin selection.
RoundRobinRequested(K) ==
    /\ is_some(CONSUL_CONFIG.watch_services)
    /\ \E n \in DOMAIN watch_services :
          /\ health_service_key(watch_services[n]) = K
          /\ watch_services[n].balancer_name = Some(ROUND_ROBIN)

\* C18. Round-robin selection alternates strictly: after a selection returned
\* an address of a 2-address entry whose target asks for round_robin, the
\* selection that follows it for the same key (the entry being the same) can
\* return nothing but the other address of the entry.
C18_RoundRobinAlternates ==
    is_some(ret) =>
        LET call == unwrap(ret)
            key == call.service_name \o call.tag
        IN (/\ call.result.ok
            /\ RoundRobinRequested(key)
            /\ key \in DOMAIN SERVICES_ADDRESS
            /\ Len(SERVICES_ADDRESS[key].address) = 2)
           => random_policy(SERVICES_ADDRESS, call.service_name, call.tag)
                = {Ok(a) : a \in Range(SERVICES_ADDRESS[key].address) \ {call.result.value}}

\* The change indices of the records of a response that carry an address and a
\* port.
UsableIndices(entry) ==
    {unwrap(unwrap(entry[n].Service).ModifyIndex) :
        n \in {m \in DOMAIN entry :
                 /\ is_some(entry[m].Service)
                 /\ is_some(unwrap(entry[m].Service).Address)
                 /\ is_some(unwrap(entry[m].Service).Port)
                 /\ is_some(unwrap(entry[m].Service).ModifyIndex)}}

\* get_address has just built an entry from resp and the loop has put it in vv.
EntryBuilt ==
    /\ pc \in {"send", "commit", "round"}
    /\ round_log # <<>>
    /\ ~round_log[Len(round_log)].empty

\* C19. The index of the entry get_address builds from a response is the
\* maximum change index over the records of the response that carry an address
\* and a port, in whatever order the records are listed.
C19_EntryIndexIsMaxOfResponse ==
    EntryBuilt =>
        vv[round_log[Len(round_log)].key].index = Max(UsableIndices(resp))

\* C20. The change index of a record is optional: a response with a record
\* that carries an address and a port but no change index is processed by
\* get_address without a panic.
C20_IndexIsOptional ==
    [][(/\ pc = "received"
        /\ \E n \in DOMAIN resp :
              /\ is_some(resp[n].Service)
              /\ is_some(unwrap(resp[n].Service).Address)
              /\ is_some(unwrap(resp[n].Service).Port)
              /\ ~is_some(unwrap(resp[n].Service).ModifyIndex))
       => pc' # "panicked"]_vars

\* A blocking query has been built and sent and is not yet processed.
QueryBuilt == pc \in {"inflight", "received"}

\* C21. The index parameter of every blocking query is the index of the cache
\* entry of the target's key as the cache was when the query was built, and 0
\* when the key was absent.
C21_QueryIndexIsCachedIndex ==
    QueryBuilt =>
        LET target == watch_services[i]
            key == target.service_name
                     \o (IF is_some(target.tag) THEN unwrap(target.tag) ELSE "")
        IN /\ "index" \in DOMAIN query
           /\ query["index"] = to_string(IF key \in DOMAIN issued
                                         THEN issued[key].index ELSE 0)

\* A query is in flight for a cached key, with the index of its entry.
C21_Witness ==
    /\ pc = "inflight"
    /\ health_service_key(watch_services[i]) \in DOMAIN issued
    /\ query["index"] # "0"

RECURSIVE ChangedAddresses(_, _)
ChangedAddresses(entry, cached) ==
    IF entry = <<>> THEN <<>>
    ELSE LET val == Head(entry)
             rest == ChangedAddresses(Tail(entry), cached)
         IN IF ~is_some(val.Service) THEN rest
            ELSE LET v == unwrap(val.Service) IN
                 IF \/ ~is_some(v.Address)
                    \/ ~is_some(v.Port)
                    \/ v.ModifyIndex = Some(cached)
                 THEN rest
                 ELSE <<unwrap(v.Address) \o ":" \o to_string(unwrap(v.Port))>> \o rest

\* C23. The address list get_address builds from a response (when it does not
\* panic) is ChangedAddresses of the response with the index that was cached
\* for the key when the poll was issued (0 without an entry): when that list is
\* empty vv gets no entry, otherwise the entry of the key in vv has that list.
C23_AddressListIsFilteredResponse ==
    [][(pc = "received" /\ pc' \notin {"received", "panicked"})
       => LET key == health_service_key(watch_services[i])
              cached == IF key \in DOMAIN issued THEN issued[key].index ELSE 0
              expected == ChangedAddresses(resp, cached)
          IN IF expected = <<>>
             THEN vv' = vv
             ELSE /\ key \in DOMAIN vv'
                  /\ vv'[key].address = expected]_vars

\* get_address built a one-address list from a response of two records with
\* address and port, the first of which carried the cached index.
C23_Witness ==
    /\ pc = "commit"
    /\ Len(resp) = 2
    /\ cur_index > 0
    /\ is_some(resp[1].Service)
    /\ is_some(unwrap(resp[1].Service).Address)
    /\ is_some(unwrap(resp[1].Service).Port)
    /\ unwrap(resp[1].Service).ModifyIndex = Some(cur_index)
    /\ Len(vv[health_service_key(web)].address) = 1

\* C24. A commit replaces wholesale: in the commit of a round the entry of
\* every key for which the round built a non-empty address list (the keys of
\* vv) becomes exactly the entry built, and every other key keeps its entry
\* (and no other key appears).
C24_CommitReplacesWholesale ==
    [][(pc = "commit" /\ pc' = "round")
       => /\ DOMAIN vv = {round_log[n].key : n \in {m \in DOMAIN round_log :
                                                      ~round_log[m].empty}}
          /\ \A K \in DOMAIN vv :
                /\ K \in DOMAIN SERVICES_ADDRESS'
                /\ SERVICES_ADDRESS'[K] = vv[K]
          /\ \A K \in Keys \ DOMAIN vv :
                /\ K \in DOMAIN SERVICES_ADDRESS
                /\ K \in DOMAIN SERVICES_ADDRESS'
                /\ SERVICES_ADDRESS'[K] = SERVICES_ADDRESS[K]]_vars

\* A round of two targets ended with a commit for the second only, whose key
\* was cached before; both keys are cached.
C24_Witness ==
    /\ RoundDone
    /\ Len(round_log) = 2
    /\ round_log[1].empty
    /\ ~round_log[2].empty
    /\ cur_index > 0
    /\ round_log[1].key # round_log[2].key
    /\ round_log[1].key \in DOMAIN SERVICES_ADDRESS
    /\ SERVICES_ADDRESS[round_log[2].key] = vv[round_log[2].key]

\* The cache after the whole vv of a commit is inserted into cache.
Committed(cache, m) ==
    [k \in (DOMAIN cache) \cup (DOMAIN m) |-> IF k \in DOMAIN m THEN m[k] ELSE cache[k]]

\* The caches of SpecTasks in which every commit is in whole or not at all.
CommittedCaches ==
    {OldCache}
    \cup {Committed(OldCache, commits[t].vv) : t \in Tasks}
    \cup {Committed(Committed(OldCache, commits[t].vv), commits[u].vv) :
            t \in Tasks, u \in Tasks}

\* C25. A round's results are committed atomically: the cache a random_policy
\* call reads under its guard holds all of the entries of a commit or none of
\* them.
C25_CommitIsAtomic ==
    sel.call # <<>> => sel.held \in CommittedCaches

\* random_policy returned from the cache as a commit of two entries left it.
C25_Witness ==
    /\ is_some(ret)
    /\ \E t \in Tasks :
          /\ DOMAIN commits[t].vv = TaskKeys
          /\ sel.held = Committed(OldCache, commits[t].vv)

\* C27. random_policy is not blocked by the network I/O of a watch loop: the
\* write guard is held only by a task that is inserting its commit, never
\* while a blocking query is in flight, and unless a task holds or awaits the
\* write lock a call of random_policy is granted its read lock, blocking
\* queries in flight or not.
C27_SelectionNotBlockedByQueries ==
    /\ sa_writers > 0 =>
          /\ \E t \in Tasks : commits[t].pc = "insert"
          /\ \A t \in Tasks : commits[t].pc # "inflight"
    /\ (/\ sel.pc = "idle"
        /\ \A t \in Tasks : commits[t].pc \notin {"commit", "insert"})
       => ENABLED RandomPolicyLock

\* random_policy returned an address while a blocking query is in flight.
C27_Witness ==
    /\ is_some(ret)
    /\ unwrap(ret).result.ok
    /\ sel.held = SERVICES_ADDRESS
    /\ \E t \in Tasks : commits[t].pc = "inflight"
    /\ \E t \in Tasks : commits[t].pc = "done"

\* C28. Cache reads do not block writers: the read access of the index lookup
\* ends before the query is sent, so a task that awaits the write lock for its
\* commit, with no random_policy call under way and no other commit, finds no
\* read guard held and need not wait for a query in flight.
C28_QueriesDoNotBlockWriters ==
    (/\ \E t \in Tasks : commits[t].pc = "commit"
     /\ sa_writers = 0
     /\ sel.pc = "idle")
    => sa_readers = 0

\* C26. Commits for a key are serialized across the rounds of one loop: the
\* cache changes in the commit step of the loop and in no other step; when a
\* round begins, every entry the round before it built is in the cache; and
\* the query then built for a key reads the index of the entry in the cache,
\* the one last committed.
C26_CommitsSerializedAcrossRounds ==
    [][/\ SERVICES_ADDRESS' # SERVICES_ADDRESS => (pc = "commit" /\ pc' = "round")
       /\ (pc = "round" /\ pc' = "send")
          => \A K \in DOMAIN vv :
                /\ K \in DOMAIN SERVICES_ADDRESS
                /\ SERVICES_ADDRESS[K] = vv[K]
       /\ (pc = "send" /\ pc' = "inflight")
          => LET K == health_service_key(watch_services[i]) IN
             cur_index' = IF K \in DOMAIN SERVICES_ADDRESS
                          THEN SERVICES_ADDRESS[K].index ELSE 0]_vars

\* The first query of a round is in flight with the index that the round
\* before it committed for its key.
C26_Witness ==
    /\ pc = "inflight"
    /\ i = 1
    /\ cur_index > 1
    /\ SERVICES_ADDRESS[health_service_key(watch_services[1])].index = cur_index

\* C29. Cache entries are never deleted: no step, be it of a poll that
\* succeeds, is empty or fails, of a commit or of a selection, removes a key
\* from SERVICES_ADDRESS.
C29_EntriesNeverDeleted ==
    [][DOMAIN SERVICES_ADDRESS \subseteq DOMAIN SERVICES_ADDRESS']_vars

\* A round over two cached keys ended with a commit for one of them only.
C29_Witness ==
    /\ RoundDone
    /\ Cardinality(DOMAIN SERVICES_ADDRESS) = 2
    /\ Cardinality(DOMAIN vv) = 1
    /\ DOMAIN vv \subseteq DOMAIN SERVICES_ADDRESS
    /\ raft_index = MaxIndex

\* C30. Selection is read-only and stateless: a random_policy call, whether it
\* returns an address or an error, changes neither the cache nor the
\* configuration nor anything else but the result handed to its caller, so
\* what the next call can return is what this call could return.
C30_SelectionIsReadOnly ==
    [][is_some(ret')
       => /\ SERVICES_ADDRESS' = SERVICES_ADDRESS
          /\ CONSUL_CONFIG' = CONSUL_CONFIG
          /\ <<cfg_readers, sa_readers, sa_writers>> ' = <<cfg_readers, sa_readers, sa_writers>>
          /\ \A call \in Calls :
                random_policy(SERVICES_ADDRESS', call[1], call[2])
                  = random_policy(SERVICES_ADDRESS, call[1], call[2])]_vars

\* random_policy returned the error while the loop was about to commit to a
\* cache that holds another key.
C30_Witness ==
    /\ is_some(ret)
    /\ ~unwrap(ret).result.ok
    /\ pc = "commit"
    /\ DOMAIN SERVICES_ADDRESS # {}

\* C31. Every entry stored in SERVICES_ADDRESS has a non-empty address list,
\* so random_policy fails only for a key that is absent from the cache.
C31_EntriesAreNonEmpty ==
    /\ \A K \in DOMAIN SERVICES_ADDRESS : SERVICES_ADDRESS[K].address # <<>>
    /\ is_some(ret) =>
          LET call == unwrap(ret) IN
          ~call.result.ok
          => (call.service_name \o call.tag) \notin DOMAIN SERVICES_ADDRESS

\* random_policy failed for an absent key while two keys are cached, after a
\* round whose last poll built an empty list for a cached key.
C31_Witness ==
    /\ is_some(ret)
    /\ ~unwrap(ret).result.ok
    /\ Cardinality(DOMAIN SERVICES_ADDRESS) = 2
    /\ round_log # <<>>
    /\ round_log[Len(round_log)].empty
    /\ round_log[Len(round_log)].key \in DOMAIN SERVICES_ADDRESS

\* C32. Key derivation is consistent: for the target whose entry get_address
\* has just built, the key of the entry in vv (and so in the cache) is the key
\* under which health_service read the index, it is service_name followed by
\* the tag (nothing for an absent or empty tag), and random_policy called with
\* the target's name and tag finds the entry.
C32_KeyDerivationIsConsistent ==
    /\ QueryBuilt =>
          LET target == watch_services[i]
              tag == IF is_some(target.tag) THEN unwrap(target.tag) ELSE ""
              key == target.service_name \o tag
          IN cur_index = IF key \in DOMAIN SERVICES_ADDRESS
                         THEN SERVICES_ADDRESS[key].index ELSE 0
    /\ EntryBuilt =>
          LET target == watch_services[i - 1]
              tag == IF is_some(target.tag) THEN unwrap(target.tag) ELSE ""
              key == round_log[Len(round_log)].key
          IN /\ key \in DOMAIN vv
             /\ key = target.service_name \o tag
             /\ (tag = "" => key = target.service_name)
             /\ \A result \in random_policy(vv, target.service_name, tag) : result.ok

\* An entry was built and committed for api, whose tag is the empty string,
\* in a round that also built one for web, whose tag is absent.
C32_Witness ==
    /\ EntryBuilt
    /\ pc = "round"
    /\ watch_services[i - 1].tag = Some("")
    /\ watch_services[1].tag = None
    /\ DOMAIN vv = {"web", "api"}
    /\ DOMAIN SERVICES_ADDRESS = {"web", "api"}

\* C34. watch_services returns Ok(()) only from its start and only when no
\* target list is configured at that moment; that step sends no query, takes
\* no guard of the cache and leaves the cache as it is.  Once a list is
\* configured, an empty one included, no step of the loop returns Ok.
C34_OkOnlyWithoutTargetList ==
    [][/\ (pc' = "returned_ok" /\ pc # "returned_ok")
          => /\ pc = "init"
             /\ ~is_some(CONSUL_CONFIG.watch_services)
             /\ SERVICES_ADDRESS' = SERVICES_ADDRESS
             /\ sa_readers' = sa_readers
             /\ issued' = issued
             /\ query' = EmptyMap
             /\ round_log' = <<>>
       /\ (pc = "init" /\ is_some(CONSUL_CONFIG.watch_services))
          => pc' \in {"init", "round"}
       /\ Running => pc' # "returned_ok"]_vars

\* watch_services has returned Ok(()): nothing was polled and the cache is
\* as it was constructed.
C34_Witness ==
    /\ pc = "returned_ok"
    /\ seen = <<>>
    /\ round_log = <<>>
    /\ SERVICES_ADDRESS = EmptyMap
    /\ cfg_readers = 0

\* C35. When two targets of one round have the same cache key and both build
\* a non-empty address list, the round holds one entry for that key, the one
\* built from the response of the later target, and that entry is the one
\* the commit step stores in the cache.
C35_LaterTargetWins ==
    [][/\ (/\ pc = "received"
           /\ Len(round_log) = 1
           /\ Len(round_log') = 2
           /\ ~round_log'[1].empty
           /\ ~round_log'[2].empty
           /\ round_log'[1].key = round_log'[2].key)
          => LET key == round_log'[2].key IN
             /\ DOMAIN vv' = {key}
             /\ vv'[key].address = ChangedAddresses(resp, cur_index)
             /\ pc' = "commit"
       /\ (/\ pc = "commit"
           /\ pc' = "round"
           /\ Len(round_log) = 2
           /\ ~round_log[1].empty
           /\ ~round_log[2].empty
           /\ round_log[1].key = round_log[2].key)
          => LET key == round_log[2].key IN
             /\ SERVICES_ADDRESS'[key] = vv[key]
             /\ vv[key].address = ChangedAddresses(resp, cur_index)
             /\ DOMAIN SERVICES_ADDRESS' = (DOMAIN SERVICES_ADDRESS) \cup {key}]_vars

\* A round of two targets with one key was committed; both built a list and
\* the cache holds, as the only entry, the one-address list built from the
\* second response.
C35_Witness ==
    /\ RoundDone
    /\ Len(round_log) = 2
    /\ round_log[1].key = round_log[2].key
    /\ ~round_log[1].empty
    /\ ~round_log[2].empty
    /\ DOMAIN SERVICES_ADDRESS = {round_log[2].key}
    /\ SERVICES_ADDRESS[round_log[2].key].address = ChangedAddresses(resp, cur_index)
    /\ Len(SERVICES_ADDRESS[round_log[2].key].address) = 1

\* C38. In every entry built by get_address, and in every entry of the cache,
\* the address vector and the address_link list hold the same strings in the
\* same order.
C38_LinkMirrorsVector ==
    /\ \A K \in DOMAIN vv :
          /\ Len(vv[K].address_link) = Len(vv[K].address)
          /\ \A n \in DOMAIN vv[K].address :
                vv[K].address_link[n] = vv[K].address[n]
    /\ \A K \in DOMAIN SERVICES_ADDRESS :
          /\ Len(SERVICES_ADDRESS[K].address_link) = Len(SERVICES_ADDRESS[K].address)
          /\ \A n \in DOMAIN SERVICES_ADDRESS[K].address :
                SERVICES_ADDRESS[K].address_link[n] = SERVICES_ADDRESS[K].address[n]

\* get_address built an entry of two different addresses from a response of
\* MaxRecords records, and the entry was committed.
C38_Witness ==
    /\ pc = "round"
    /\ Len(resp) = MaxRecords
    /\ health_service_key(web) \in DOMAIN vv
    /\ SERVICES_ADDRESS[health_service_key(web)] = vv[health_service_key(web)]
    /\ Len(vv[health_service_key(web)].address) = 2
    /\ vv[health_service_key(web)].address[1] # vv[health_service_key(web)].address[2]

C36_ClientInitErrWithoutConfig ==
    [][(cfg_readers = 1 /\ cfg_readers' = 0)
       => /\ is_some(ret')
          /\ unwrap(ret').call \in ClientFunctions
          /\ (~is_some(CONSUL_CONFIG.config)
              => /\ unwrap(ret').result = ClientInitErr
                 /\ unwrap(ret').result.value = "client init err"
                 /\ ~unwrap(ret').result.ok
                 /\ sent' = sent
                 /\ SERVICES_ADDRESS' = SERVICES_ADDRESS
                 /\ sa_readers' = sa_readers
                 /\ CONSUL_CONFIG' = CONSUL_CONFIG)
          /\ (is_some(CONSUL_CONFIG.config)
              => unwrap(ret').result # ClientInitErr)]_vars

\* health_service returned "client init err" on a loaded configuration that
\* has a target list and no config, after an earlier call had sent a request.
C36_Witness ==
    /\ is_some(ret)
    /\ unwrap(ret).call = "health_service"
    /\ unwrap(ret).result = ClientInitErr
    /\ ~is_some(CONSUL_CONFIG.config)
    /\ is_some(CONSUL_CONFIG.watch_services)
    /\ sent = {request_path("service_deregister")}
    /\ cfg_readers = 0

\* C37. load_config is all-or-nothing: a call that fails to read or to parse
\* the file returns the error without having asked for the lock and leaves
\* both fields of CONSUL_CONFIG as they were; CONSUL_CONFIG changes only
\* while the write guard is held and no read guard is; the call that returns
\* Ok has replaced both fields by the parsed ones before it drops the guard;
\* and a reader never sees one field of one file with the other of another.
C37_LoadConfigAllOrNothing ==
    /\ [][/\ (load.pc = "idle" /\ load'.pc = "idle" /\ is_some(ret')
              /\ unwrap(ret').call = "load_config")
             => /\ ~unwrap(ret').result.ok
                /\ unwrap(ret').result.value \in {"io", "yaml", "toml"}
                /\ CONSUL_CONFIG' = CONSUL_CONFIG
                /\ cfg_writers' = cfg_writers /\ cfg_writers = 0
          /\ (CONSUL_CONFIG' # CONSUL_CONFIG)
             => /\ cfg_writers = 1
                /\ cfg_readers = 0
                /\ load.pc \in {"locked", "config_assigned"}
          /\ (cfg_writers = 1 /\ cfg_writers' = 0)
             => /\ ret' = LoadConfigCall(load.path, Ok(<<>>))
                /\ CONSUL_CONFIG' = unwrap(load.config)
          /\ (load.pc = "idle" /\ load'.pc = "write")
             => /\ CONSUL_CONFIG' = CONSUL_CONFIG
                /\ (ends_with(load'.path, ".json")
                    => load'.config = Some(DefaultConsulConfig))]_vars
    /\ [](cfg_writers = 0 => CONSUL_CONFIG \in {DefaultConsulConfig} \cup ConfigFiles)

\* A load_config of a .toml path returned the parse error while CONSUL_CONFIG
\* holds what an earlier call loaded: a target list and no config.
C37_Witness ==
    /\ is_some(ret)
    /\ unwrap(ret).call = "load_config"
    /\ unwrap(ret).arg = <<"consul", ".toml">>
    /\ unwrap(ret).result = Err("toml")
    /\ ~is_some(CONSUL_CONFIG.config)
    /\ CONSUL_CONFIG.watch_services = Some(<<web>>)
    /\ cfg_writers = 0
    /\ load.pc = "idle"

====
